---------------------------- MODULE Spec2Model ----------------------------
(***************************************************************************)
(* Model of the Unity MCP adapter: the handlers call_tool, list_tools and  *)
(* read_resource and the entry point main (unity_mcp_server.py), the TCP   *)
(* client UnityClient (unity_client.py), the blocking client               *)
(* UnityMCPClient (unity_mcp_client.py) and the command catalog            *)
(* UNITY_COMMANDS (config.py).                                             *)
(*                                                                         *)
(* Coroutines run on one asyncio event loop: the code between two awaits   *)
(* is one atomic step.  Every socket operation is handed to a worker       *)
(* thread by run_in_executor as a lambda that reads self.socket when the   *)
(* thread runs it, so each operation is three steps: the coroutine submits *)
(* it, the worker thread executes it, the coroutine resumes.               *)
(***************************************************************************)
EXTENDS Integers, Sequences, FiniteSets, TLC

(***************************************************************************)
(* Bounds of the model.                                                    *)
(***************************************************************************)
MaxCalls == 2       \* operations started in one behaviour
MaxSockets == 2     \* socket objects created in one behaviour
MaxLen == 5         \* longest array argument tried

(***************************************************************************)
(* JSON / Python values.  Every value is a record [kind, n, items]:        *)
(*   null            None                                                  *)
(*   str, n          a string of n characters; for a string handed to      *)
(*                   call_tool, items holds what its words parse to        *)
(*   num, n          the number n                                          *)
(*   list, n         a list of n numbers                                   *)
(*   dict, items     a mapping, items its key -> value function            *)
(*   bad             a bracketed word on which eval() raises               *)
(*   bool, n         False (n = 0) or True (n = 1)                         *)
(***************************************************************************)
NoItems == [k \in {} |-> 0]
JNull == [kind |-> "null", n |-> 0, items |-> NoItems]
JStr(n) == [kind |-> "str", n |-> n, items |-> NoItems]
JNum(n) == [kind |-> "num", n |-> n, items |-> NoItems]
JList(n) == [kind |-> "list", n |-> n, items |-> NoItems]
JDict(f) == [kind |-> "dict", n |-> 0, items |-> f]
JBad == [kind |-> "bad", n |-> 0, items |-> NoItems]
JBool(n) == [kind |-> "bool", n |-> n, items |-> NoItems]
EmptyDict == JDict(NoItems)
\* A Python object json.dumps has no encoding for (a set, bytes, ...).
JObj == [kind |-> "obj", n |-> 0, items |-> NoItems]

\* json.dumps(v) succeeds: neither v nor a value inside it is such an
\* object.
RECURSIVE Serializable(_)
Serializable(v) ==
    /\ v.kind # "obj"
    /\ (v.kind = "dict"
        => \A k \in DOMAIN v.items : Serializable(v.items[k]))

\* A command line "word k=v ...": n characters, items = the mapping the
\* parser of call_tool builds from it (method = first word, params = the
\* k=v words).  A string without any word has no items.
JLine(n, params) ==
    [kind |-> "str", n |-> n,
     items |-> ("method" :> JStr(1) @@ "params" :> JDict(params))]

\* Python truth value (what "not x" and "x or y" test).
Truthy(v) ==
    CASE v.kind = "null" -> FALSE
      [] v.kind = "str"  -> v.n > 0
      [] v.kind = "num"  -> v.n # 0
      [] v.kind = "bool" -> v.n # 0
      [] v.kind = "list" -> v.n > 0
      [] v.kind = "dict" -> DOMAIN v.items # {}
      [] OTHER -> TRUE

\* str.startswith(prefix).
StartsWith(s, prefix) ==
    Len(s) >= Len(prefix) /\ SubSeq(s, 1, Len(prefix)) = prefix

\* str.replace(old, ""): every occurrence of old, found from left to right
\* without overlap, is removed.
RECURSIVE Replace(_, _)
Replace(s, old) ==
    IF Len(s) < Len(old) THEN s
    ELSE IF SubSeq(s, 1, Len(old)) = old
      THEN Replace(SubSeq(s, Len(old) + 1, Len(s)), old)
    ELSE SubSeq(s, 1, 1) \o Replace(SubSeq(s, 2, Len(s)), old)


(***************************************************************************)
(* The command catalog (config.py) and the tool schemas (list_tools).      *)
(***************************************************************************)
\* The commands of UNITY_COMMANDS the model distinguishes: the seven that
\* list_tools exposes and one of the catalog-only commands.
UNITY_COMMANDS ==
    {"get_scene_info", "get_object_info", "create_object", "modify_object",
     "delete_object", "set_material", "execute_unity_code", "create_light"}

\* A tool name that is no command of the catalog.
UnknownNames == {"bogus"}
ToolNames == UNITY_COMMANDS \cup UnknownNames

\* inputSchema "required" of list_tools: command -> its required fields.
SchemaRequired(name) ==
    CASE name = "get_object_info"    -> {"object_name"}
      [] name = "create_object"      -> {"type"}
      [] name = "modify_object"      -> {"name"}
      [] name = "delete_object"      -> {"name"}
      [] name = "set_material"       -> {"object_name"}
      [] name = "execute_unity_code" -> {"code"}
      [] OTHER -> {}

\* inputSchema array properties of list_tools with minItems / maxItems:
\* command -> array fields, and the lengths the schema allows for a field.
SchemaArrays(name) ==
    CASE name = "create_object" -> {"location", "rotation", "scale"}
      [] name = "modify_object" -> {"location", "rotation", "scale"}
      [] name = "set_material"  -> {"color"}
      [] OTHER -> {}

SchemaArity(field) == IF field = "color" THEN {3, 4} ELSE {3}

\* The parameters declared for a command: inputSchema "properties" of
\* list_tools, and "params" of UNITY_COMMANDS for a command that
\* list_tools does not expose.
SchemaProperties(name) ==
    CASE name = "get_object_info"    -> {"object_name"}
      [] name = "create_object"      ->
            {"type", "name", "location", "rotation", "scale"}
      [] name = "modify_object"      ->
            {"name", "location", "rotation", "scale", "visible"}
      [] name = "delete_object"      -> {"name"}
      [] name = "set_material"       ->
            {"object_name", "material_name", "color"}
      [] name = "execute_unity_code" -> {"code"}
      [] name = "create_light"       ->
            {"lightType", "position", "intensity", "color"}
      [] OTHER -> {}

\* UNITY_COMMANDS[name]["description"] (config.py).
CommandDescription(name) ==
    CASE name = "get_scene_info"     -> "Get details of the current Unity scene"
      [] name = "get_object_info"    -> "Get properties of a specific object"
      [] name = "create_object"      -> "Create a new object in the Unity scene"
      [] name = "modify_object"      -> "Modify properties of an existing object"
      [] name = "delete_object"      -> "Delete an object from the scene"
      [] name = "set_material"       -> "Assign a material to an object"
      [] name = "execute_unity_code" -> "Execute custom C# code in Unity"
      [] name = "create_light"       -> "Create a light in the Unity scene"

\* The names list_tools gives to its types.Tool objects, in the order of
\* its tools.append calls (lines 28-108).
ListedTools ==
    <<"get_scene_info", "get_object_info", "create_object", "modify_object",
      "delete_object", "set_material", "execute_unity_code">>

\* The list list_tools returns, flattened: the name and the description of
\* the first tool, then of the second, and so on.
ToolList ==
    [i \in 1..(2 * Len(ListedTools)) |->
        IF i % 2 = 1 THEN ListedTools[(i + 1) \div 2]
        ELSE CommandDescription(ListedTools[i \div 2])]

(***************************************************************************)
(* call_tool, lines 118-187: the checks made before send_command.          *)
(***************************************************************************)
Has(a, k) == a.kind = "dict" /\ k \in DOMAIN a.items

\* "k not in arguments or not arguments[k]"
MissingOrEmpty(a, k) == ~Has(a, k) \/ ~Truthy(a.items[k])

\* "k in arguments and arguments[k] is not None" and then
\* "not isinstance(arguments[k], list) or len(arguments[k]) not in lens"
BadArrayOnlyShort(a, k, lens) ==
    /\ Has(a, k)
    /\ a.items[k].kind # "null"
    /\ (a.items[k].kind # "list" \/ \A l \in lens : a.items[k].n < l)

BadArray(a, k, lens) ==
    /\ Has(a, k)
    /\ a.items[k].kind # "null"
    /\ (a.items[k].kind # "list" \/ a.items[k].n \notin lens)

Pass(a) == [exc |-> "", msg |-> "", args |-> a]
Fail(exc, msg) == [exc |-> exc, msg |-> msg, args |-> JNull]

\* Lines 131-148: a string is split into words; the first is the method,
\* every k=v word goes to params, a bracketed value through eval().
\* parts[0] of a string without words raises IndexError, eval may raise;
\* both are re-raised as ValueError.
ConvertString(a) ==
    IF a.items = NoItems
      THEN Fail("ValueError", "convert")
    ELSE IF \E k \in DOMAIN a.items["params"].items :
                a.items["params"].items[k].kind = "bad"
      THEN Fail("ValueError", "convert")
    ELSE Pass(JDict(a.items))

\* Lines 150-187: the per-tool checks.  The key tests use "in", which
\* raises TypeError on a value that is no container.
SpecialValidationArraysFirst(name, a) ==
    LET checked == {"create_object", "execute_unity_code", "get_object_info",
                    "set_material", "delete_object"}
    IN
    IF name \notin checked THEN Pass(a)
    ELSE IF a.kind \notin {"dict"} THEN Fail("TypeError", "not_iterable")
    ELSE CASE name = "create_object" ->
                IF BadArray(a, "location", {3})
                    THEN Fail("ValueError", "location")
                ELSE IF BadArray(a, "rotation", {3})
                    THEN Fail("ValueError", "rotation")
                ELSE IF BadArray(a, "scale", {3})
                    THEN Fail("ValueError", "scale")
                ELSE IF MissingOrEmpty(a, "type")
                    THEN Fail("ValueError", "type")
                ELSE Pass(a)
           [] name = "execute_unity_code" ->
                IF MissingOrEmpty(a, "code") THEN Fail("ValueError", "code")
                ELSE Pass(a)
           [] name = "get_object_info" ->
                IF MissingOrEmpty(a, "object_name")
                    THEN Fail("ValueError", "object_name")
                ELSE Pass(a)
           [] name = "set_material" ->
                IF BadArray(a, "color", {3, 4})
                    THEN Fail("ValueError", "color")
                ELSE IF MissingOrEmpty(a, "object_name")
                    THEN Fail("ValueError", "object_name")
                ELSE Pass(a)
           [] name = "delete_object" ->
                IF MissingOrEmpty(a, "name") THEN Fail("ValueError", "name")
                ELSE Pass(a)

SpecialValidation(name, a) ==
    LET checked == {"create_object", "execute_unity_code", "get_object_info",
                    "set_material", "delete_object"}
    IN
    IF name \notin checked THEN Pass(a)
    ELSE IF a.kind \notin {"dict"} THEN Fail("TypeError", "not_iterable")
    ELSE CASE name = "create_object" ->
                IF MissingOrEmpty(a, "type") THEN Fail("ValueError", "type")
                ELSE IF BadArray(a, "location", {3})
                    THEN Fail("ValueError", "location")
                ELSE IF BadArray(a, "rotation", {3})
                    THEN Fail("ValueError", "rotation")
                ELSE IF BadArray(a, "scale", {3})
                    THEN Fail("ValueError", "scale")
                ELSE Pass(a)
           [] name = "execute_unity_code" ->
                IF MissingOrEmpty(a, "code") THEN Fail("ValueError", "code")
                ELSE Pass(a)
           [] name = "get_object_info" ->
                IF MissingOrEmpty(a, "object_name")
                    THEN Fail("ValueError", "object_name")
                ELSE Pass(a)
           [] name = "set_material" ->
                IF MissingOrEmpty(a, "object_name")
                    THEN Fail("ValueError", "object_name")
                ELSE IF BadArray(a, "color", {3, 4})
                    THEN Fail("ValueError", "color")
                ELSE Pass(a)
           [] name = "delete_object" ->
                IF MissingOrEmpty(a, "name") THEN Fail("ValueError", "name")
                ELSE Pass(a)

\* Lines 118-187 as a whole: [exc, msg, args]; exc = "" when every check
\* passed, and args is then what is handed to send_command.
GatewayStrict(name, arguments) ==
    IF name # "get_scene_info" /\ ~Truthy(arguments)
      THEN Fail("ValueError", "empty")
    ELSE LET a1 == IF arguments.kind = "null" THEN EmptyDict ELSE arguments
             c  == IF a1.kind = "str" THEN ConvertString(a1) ELSE Pass(a1)
         IN IF c.exc # "" THEN c
            ELSE IF c.args.kind = "dict"
                    /\ ~(DOMAIN c.args.items \subseteq SchemaProperties(name))
              THEN Fail("ValueError", "unknown_parameter")
            ELSE SpecialValidation(name, c.args)

Gateway(name, arguments) ==
    IF name # "get_scene_info" /\ ~Truthy(arguments)
      THEN Fail("ValueError", "empty")
    ELSE LET a1 == IF arguments.kind = "null" THEN EmptyDict ELSE arguments
             c  == IF a1.kind = "str" THEN ConvertString(a1) ELSE Pass(a1)
         IN IF c.exc # "" THEN c ELSE SpecialValidation(name, c.args)

(***************************************************************************)
(* send_command, lines 68-81: the request envelope.                        *)
(***************************************************************************)
\* Lines 69-73: "params or {}", then a mapping with a key "params" is
\* replaced by the value of that key.
WireParams(params) ==
    LET p == IF Truthy(params) THEN params ELSE EmptyDict
    IN IF p.kind = "dict" /\ "params" \in DOMAIN p.items
         THEN p.items["params"] ELSE p


\* Lines 76-81: the envelope.  id is str(id(params)) for truthy params,
\* an address the interpreter chooses, and "0" otherwise: 0 models "0",
\* addr models the address.  call is not on the wire: it numbers the
\* send_command invocation the request belongs to.
BuildRequest(method, params, addr, call) ==
    LET p == WireParams(params)
    IN [method |-> method, params |-> p,
        id |-> IF Truthy(p) THEN addr ELSE 0, call |-> call]

\* Addresses id() may return.  Two calls may get the same one or different
\* ones; addresses being interchangeable, call c chooses among 1..c.
Addresses(call) == 1..call
IdSet == 0..MaxCalls

(***************************************************************************)
(* State.                                                                  *)
(***************************************************************************)
Tasks == {1, 2}
SockIds == 1..MaxSockets

VARIABLES
    socket,      \* UnityClient.socket: 0 is None, else a socket object
    connected,   \* UnityClient.connected
    socks,       \* the socket objects: [st, out, inq, peer]
    pc,          \* where each coroutine stands
    op,          \* the operation each coroutine runs
    cur,         \* [name, args]: the inputs of that operation
    req,         \* the request envelope of the send_command in progress
    ret,         \* what the worker thread handed back: [st, sock, data]
    outcome,     \* how the last operation of the coroutine ended
    log,         \* what the operation did so far
    calls,       \* operations started
    lastLost     \* the last send_command lost its connection, and no
                 \* connect() or disconnect() was called since

vars == <<socket, connected, socks, pc, op, cur, req, ret, outcome, log,
          calls, lastLost>>

NoReq == [method |-> "", params |-> JNull, id |-> 0, call |-> 0]
NoRet == [st |-> "none", sock |-> 0, data |-> <<>>]
NoResp == [shape |-> "none", error |-> "none", result |-> JNull, id |-> 0,
           re |-> 0, echo |-> FALSE]
NoOutcome == [kind |-> "none", exc |-> "", msg |-> <<>>, val |-> JNull,
              resp |-> NoResp]
NoLog == [invoked |-> FALSE, connects |-> 0, writes |-> 0, fault |-> "",
          closeFailed |-> FALSE, after |-> FALSE, disconnects |-> 0,
          pre |-> [socket |-> 0, connected |-> FALSE]]
NewSock == [st |-> "unused", out |-> <<>>, inq |-> <<>>, peer |-> "up"]

\* __init__, lines 22-25.
Init ==
    /\ socket = 0
    /\ connected = FALSE
    /\ socks = [s \in SockIds |-> NewSock]
    /\ pc = [t \in Tasks |-> "idle"]
    /\ op = [t \in Tasks |-> "none"]
    /\ cur = [t \in Tasks |-> [name |-> "", args |-> JNull]]
    /\ req = [t \in Tasks |-> NoReq]
    /\ ret = [t \in Tasks |-> NoRet]
    /\ outcome = [t \in Tasks |-> NoOutcome]
    /\ log = [t \in Tasks |-> NoLog]
    /\ calls = 0
    /\ lastLost = FALSE

Returned(val, resp) ==
    [kind |-> "returned", exc |-> "", msg |-> <<>>, val |-> val,
     resp |-> resp]
Raised(exc, msg) ==
    [kind |-> "raised", exc |-> exc, msg |-> <<msg>>, val |-> JNull,
     resp |-> NoResp]

\* Lines 99-101: Exception(f"Unity error: {error_msg}"), the message being
\* the fixed prefix followed by error_msg.
UnityError(error_msg) ==
    [kind |-> "raised", exc |-> "Exception",
     msg |-> <<"Unity error", error_msg>>, val |-> JNull, resp |-> NoResp]

\* Line 194: json.dumps(result, indent=2), a non-empty string that parses
\* to result.
Dumps(result) == [kind |-> "str", n |-> 1, items |-> ("json" :> result)]

\* The exception classes "except Exception" catches: every class the
\* model raises derives from Exception.
CaughtByExceptException ==
    {"ValueError", "TypeError", "AttributeError", "ConnectionError",
     "Exception"}

\* call_tool, lines 190-199: the result of send_command becomes the text
\* json.dumps(result); an exception caught by "except Exception" becomes
\* the text "Error calling tool <name>: <message>"; anything else escapes.
CallToolOnlyValueError(name, res) ==
    IF res.kind = "raised" /\ res.exc = "ValueError"
      THEN [kind |-> "text", exc |-> res.exc,
            msg |-> <<"Error calling tool", name>> \o res.msg,
            val |-> JNull, resp |-> NoResp]
    ELSE IF res.kind = "raised" THEN res
    ELSE [kind |-> "text", exc |-> "", msg |-> <<>>, val |-> Dumps(res.val),
          resp |-> res.resp]

CallToolResult(name, res) ==
    IF res.kind = "raised" /\ res.exc \in CaughtByExceptException
      THEN [kind |-> "text", exc |-> res.exc,
            msg |-> <<"Error calling tool", name>> \o res.msg,
            val |-> JNull, resp |-> NoResp]
    ELSE IF res.kind = "raised" THEN res
    ELSE [kind |-> "text", exc |-> "", msg |-> <<>>, val |-> Dumps(res.val),
          resp |-> res.resp]


(***************************************************************************)
(* Steps shared by the operations.                                         *)
(***************************************************************************)
\* The log of an operation that starts now: pre is the connection state
\* it finds.
StartLog ==
    [NoLog EXCEPT !.after = lastLost,
                  !.pre = [socket |-> socket, connected |-> connected]]

\* An operation starts: its inputs are recorded, its log is fresh.
Begin(t, o, name, args) ==
    /\ pc[t] = "idle"
    /\ calls < MaxCalls
    /\ calls' = calls + 1
    /\ op' = [op EXCEPT ![t] = o]
    /\ cur' = [cur EXCEPT ![t] = [name |-> name, args |-> args]]

\* The faults of a send_command that mean the connection is lost: sendall
\* or recv raised a socket error, or recv returned no bytes.
LostFaults == {"send_error", "recv_error", "peer_closed"}

\* read_resource, lines 213-239: the result becomes the text
\* json.dumps(result) of a ReadResourceResult; an exception caught by
\* "except Exception" is raised again as Exception("Error reading resource
\* (<uri>): <message>").
ReadResourceResult(uri, res) ==
    IF res.kind = "raised" /\ res.exc \in CaughtByExceptException
      THEN [kind |-> "raised", exc |-> "Exception",
            msg |-> <<"Error reading resource", uri>> \o res.msg,
            val |-> JNull, resp |-> NoResp]
    ELSE IF res.kind = "raised" THEN res
    ELSE [kind |-> "contents", exc |-> "", msg |-> <<uri>>,
          val |-> Dumps(res.val), resp |-> res.resp]

\* An operation ends with res: call_tool wraps it (lines 190-199),
\* read_resource too (lines 213-239), the client's own methods hand it to
\* their caller as it is.
Finish(t, o, name, res, lg) ==
    /\ pc' = [pc EXCEPT ![t] = "done"]
    /\ outcome' = [outcome EXCEPT ![t] =
                      IF o = "call_tool" THEN CallToolResult(name, res)
                      ELSE IF o = "read_resource"
                        THEN ReadResourceResult(name, res)
                      ELSE res]
    /\ log' = [log EXCEPT ![t] = lg]
    /\ lastLost' = IF o \in {"connect", "disconnect"} THEN FALSE
                   ELSE IF lg.invoked THEN lg.fault \in LostFaults
                   ELSE lastLost

FreeSocks == {s \in SockIds : socks[s].st = "unused"}

\* connect(), line 31: a new socket object is created and stored in
\* self.socket; line 32 hands its connect to a worker thread.
SubmitConnect(t, lg) ==
    /\ FreeSocks # {}
    /\ LET s == CHOOSE x \in FreeSocks : \A y \in FreeSocks : x <= y
       IN /\ socket' = s
          /\ socks' = [socks EXCEPT ![s].st = "created"]
    /\ pc' = [pc EXCEPT ![t] = "connect_exec"]
    /\ log' = [log EXCEPT ![t] = [lg EXCEPT !.connects = @ + 1]]
    /\ UNCHANGED <<connected, lastLost>>

\* send_command, lines 68-89: the envelope is built and sendall is handed
\* to a worker thread.
SubmitSend(t, method, params, call, lg) ==
    /\ \E addr \in Addresses(call) :
          req' = [req EXCEPT ![t] = BuildRequest(method, params, addr, call)]
    /\ pc' = [pc EXCEPT ![t] = "send_exec"]
    /\ log' = [log EXCEPT ![t] = lg]
    /\ UNCHANGED <<socket, socks, lastLost>>

\* send_command, lines 65-89, up to its first await.
EnterSendCommandNeverConnecting(t, method, params, lg) ==
    /\ SubmitSend(t, method, params, calls + 1, lg)
    /\ UNCHANGED connected

EnterSendCommand(t, method, params, lg) ==
    IF ~connected \/ socket = 0
      THEN /\ SubmitConnect(t, lg)
           /\ req' = [req EXCEPT ![t] =
                         [method |-> method, params |-> params, id |-> 0,
                          call |-> calls + 1]]
      ELSE /\ SubmitSend(t, method, params, calls + 1, lg)
           /\ UNCHANGED connected

\* disconnect(), lines 41-43, up to its await; lines 44-48 are CloseRet.
\* lg is the log of the operation, res what it ends with when nothing is
\* to be closed.
EnterDisconnect(t, o, name, res, lg) ==
    LET lg1 == [lg EXCEPT !.disconnects = @ + 1]
    IN IF socket # 0 /\ connected
         THEN /\ pc' = [pc EXCEPT ![t] = "close_exec"]
              /\ log' = [log EXCEPT ![t] = lg1]
              /\ outcome' = [outcome EXCEPT ![t] = NoOutcome]
              /\ UNCHANGED lastLost
         ELSE Finish(t, o, name, res, lg1)

(***************************************************************************)
(* The operations: their first step.                                       *)
(***************************************************************************)
\* call_tool(name, arguments), lines 115-190.
CallToolDroppingConnection(t, name, arguments) ==
    /\ Begin(t, "call_tool", name, arguments)
    /\ ret' = [ret EXCEPT ![t] = NoRet]
    /\ LET g == Gateway(name, arguments)
           lg == StartLog
       IN IF g.exc # ""
            THEN /\ Finish(t, "call_tool", name, Raised(g.exc, g.msg), lg)
                 /\ connected' = FALSE
                 /\ UNCHANGED <<socket, socks, req>>
            ELSE /\ EnterSendCommand(t, name, g.args,
                                     [lg EXCEPT !.invoked = TRUE])
                 /\ outcome' = [outcome EXCEPT ![t] = NoOutcome]

CallTool(t, name, arguments) ==
    /\ Begin(t, "call_tool", name, arguments)
    /\ ret' = [ret EXCEPT ![t] = NoRet]
    /\ LET g == Gateway(name, arguments)
           lg == StartLog
       IN IF g.exc # ""
            THEN /\ Finish(t, "call_tool", name, Raised(g.exc, g.msg), lg)
                 /\ UNCHANGED <<socket, connected, socks, req>>
            ELSE /\ EnterSendCommand(t, name, g.args,
                                     [lg EXCEPT !.invoked = TRUE])
                 /\ outcome' = [outcome EXCEPT ![t] = NoOutcome]

\* send_command(method, params) called directly, as read_resource does.
SendCommand(t, method, params) ==
    /\ Begin(t, "send_command", method, params)
    /\ ret' = [ret EXCEPT ![t] = NoRet]
    /\ EnterSendCommand(t, method, params,
                        [StartLog EXCEPT !.invoked = TRUE])
    /\ outcome' = [outcome EXCEPT ![t] = NoOutcome]

\* list_tools(), lines 23-110: the list is built from literals and
\* returned; no state is read or written.
ListTools(t) ==
    /\ Begin(t, "list_tools", "", JNull)
    /\ ret' = [ret EXCEPT ![t] = NoRet]
    /\ Finish(t, "list_tools", "",
              [kind |-> "returned", exc |-> "", msg |-> ToolList,
               val |-> JNull, resp |-> NoResp],
              StartLog)
    /\ UNCHANGED <<socket, connected, socks, req>>

\* The text of a material resource, line 231: a mapping of the name and a
\* fixed note.
MaterialInfo(material_name) ==
    JDict(("name" :> JStr(Len(material_name))) @@ ("info" :> JStr(36)))

\* read_resource(uri), lines 210-239, up to its first await.
ReadResource(t, uri) ==
    /\ Begin(t, "read_resource", uri, JNull)
    /\ ret' = [ret EXCEPT ![t] = NoRet]
    /\ LET lg == StartLog
       IN IF uri = "scene://current"
            THEN /\ EnterSendCommand(t, "get_scene_info", EmptyDict,
                                     [lg EXCEPT !.invoked = TRUE])
                 /\ outcome' = [outcome EXCEPT ![t] = NoOutcome]
          ELSE IF StartsWith(uri, "object://")
            THEN /\ EnterSendCommand(
                        t, "get_object_info",
                        JDict(("object_name" :>
                                  JStr(Len(Replace(uri, "object://"))))),
                        [lg EXCEPT !.invoked = TRUE])
                 /\ outcome' = [outcome EXCEPT ![t] = NoOutcome]
          ELSE IF StartsWith(uri, "material://")
            THEN /\ Finish(t, "read_resource", uri,
                           Returned(MaterialInfo(Replace(uri, "material://")),
                                    NoResp),
                           lg)
                 /\ UNCHANGED <<socket, connected, socks, req>>
          ELSE /\ Finish(t, "read_resource", uri,
                         Raised("Exception", "Unknown URI"), lg)
               /\ UNCHANGED <<socket, connected, socks, req>>

\* connect() called directly, as main does at start-up.
Connect(t) ==
    /\ Begin(t, "connect", "", JNull)
    /\ ret' = [ret EXCEPT ![t] = NoRet]
    /\ SubmitConnect(t, StartLog)
    /\ outcome' = [outcome EXCEPT ![t] = NoOutcome]
    /\ UNCHANGED req

\* disconnect() called directly, as main does on exit.
Disconnect(t) ==
    /\ Begin(t, "disconnect", "", JNull)
    /\ ret' = [ret EXCEPT ![t] = NoRet]
    /\ EnterDisconnect(t, "disconnect", "", Returned(JNull, NoResp),
                       StartLog)
    /\ UNCHANGED <<socket, connected, socks, req>>


(***************************************************************************)
(* The worker thread executes the socket call; the coroutine resumes.      *)
(***************************************************************************)
SetRet(t, st, s, data) ==
    ret' = [ret EXCEPT ![t] = [st |-> st, sock |-> s, data |-> data]]

\* Line 32, in the worker thread: self.socket.connect((host, port)).  The
\* host accepts or refuses; a socket that is already connected or closed
\* raises OSError; self.socket being None raises AttributeError.
ConnectExec(t) ==
    /\ pc[t] = "connect_exec"
    /\ pc' = [pc EXCEPT ![t] = "connect_ret"]
    /\ IF socket = 0
         THEN SetRet(t, "attr", 0, <<>>) /\ UNCHANGED socks
       ELSE IF socks[socket].st = "created"
         THEN \/ /\ socks' = [socks EXCEPT ![socket].st = "open"]
                 /\ SetRet(t, "ok", socket, <<>>)
              \/ /\ SetRet(t, "oserror", socket, <<>>)
                 /\ UNCHANGED socks
       ELSE SetRet(t, "oserror", socket, <<>>) /\ UNCHANGED socks
    /\ UNCHANGED <<socket, connected, op, cur, req, outcome, log, calls,
                   lastLost>>

\* Lines 33-37, then for send_command lines 68-89.
ConnectRetRetrying(t) ==
    /\ pc[t] = "connect_ret"
    /\ IF ret[t].st = "ok"
         THEN /\ connected' = TRUE
              /\ IF op[t] = "connect"
                   THEN /\ Finish(t, op[t], cur[t].name,
                                  Returned(JNull, NoResp), log[t])
                        /\ UNCHANGED <<socket, socks, req>>
                   ELSE /\ SubmitSend(t, req[t].method, req[t].params,
                                      req[t].call, log[t])
                        /\ UNCHANGED outcome
         ELSE IF log[t].connects < 2 /\ FreeSocks # {}
           THEN /\ SubmitConnect(t, log[t])
                /\ UNCHANGED <<req, outcome>>
           ELSE /\ Finish(t, op[t], cur[t].name,
                          Raised("ConnectionError", "connect"),
                          [log[t] EXCEPT !.fault = "refused"])
                /\ UNCHANGED <<socket, connected, socks, req>>
    /\ UNCHANGED <<op, cur, ret, calls>>

ConnectRet(t) ==
    /\ pc[t] = "connect_ret"
    /\ IF ret[t].st = "ok"
         THEN /\ connected' = TRUE
              /\ IF op[t] = "connect"
                   THEN /\ Finish(t, op[t], cur[t].name,
                                  Returned(JNull, NoResp), log[t])
                        /\ UNCHANGED <<socket, socks, req>>
                   ELSE /\ SubmitSend(t, req[t].method, req[t].params,
                                      req[t].call, log[t])
                        /\ UNCHANGED outcome
         ELSE /\ Finish(t, op[t], cur[t].name,
                        Raised("ConnectionError", "connect"),
                        [log[t] EXCEPT !.fault = "refused"])
              /\ UNCHANGED <<socket, connected, socks, req>>
    /\ UNCHANGED <<op, cur, ret, calls>>

\* Line 89, in the worker thread: self.socket.sendall(json_data).
SendExec(t) ==
    /\ pc[t] = "send_exec"
    /\ pc' = [pc EXCEPT ![t] = "send_ret"]
    /\ IF socket = 0
         THEN SetRet(t, "attr", 0, <<>>) /\ UNCHANGED <<socks, log>>
       ELSE IF socks[socket].st = "open"
         THEN \/ /\ socks' = [socks EXCEPT ![socket].out =
                                 IF socks[socket].peer = "up"
                                   THEN Append(@, req[t]) ELSE @]
                 /\ SetRet(t, "ok", socket, <<>>)
                 /\ log' = [log EXCEPT ![t].writes = @ + 1]
              \/ /\ SetRet(t, "oserror", socket, <<>>)
                 /\ UNCHANGED <<socks, log>>
       ELSE SetRet(t, "oserror", socket, <<>>) /\ UNCHANGED <<socks, log>>
    /\ UNCHANGED <<socket, connected, op, cur, req, outcome, calls,
                   lastLost>>

\* Lines 107-110: a socket error ends in disconnect() and ConnectionError.
SocketErrorKeepingSocket(t, fault) ==
    Finish(t, op[t], cur[t].name, Raised("ConnectionError", "lost"),
           [log[t] EXCEPT !.fault = fault])

SocketError(t, fault) ==
    EnterDisconnect(t, op[t], cur[t].name,
                    Raised("ConnectionError", "lost"),
                    [log[t] EXCEPT !.fault = fault])

\* Lines 90-93 after sendall returned, or the except clauses after it
\* raised.
SendRet(t) ==
    /\ pc[t] = "send_ret"
    /\ CASE ret[t].st = "ok" ->
              /\ pc' = [pc EXCEPT ![t] = "recv_exec"]
              /\ UNCHANGED <<outcome, log, lastLost>>
         [] ret[t].st = "oserror" -> SocketError(t, "send_error")
         [] OTHER ->
              Finish(t, op[t], cur[t].name,
                     Raised("AttributeError", "no_socket"),
                     [log[t] EXCEPT !.fault = "no_socket"])
    /\ UNCHANGED <<socket, connected, socks, op, cur, req, ret, calls>>

\* Line 93, in the worker thread: self.socket is read and recv is entered.
RecvExec(t) ==
    /\ pc[t] = "recv_exec"
    /\ IF socket = 0
         THEN /\ SetRet(t, "attr", 0, <<>>)
              /\ pc' = [pc EXCEPT ![t] = "recv_ret"]
         ELSE /\ SetRet(t, "none", socket, <<>>)
              /\ pc' = [pc EXCEPT ![t] = "recv_wait"]
    /\ UNCHANGED <<socket, connected, socks, op, cur, req, outcome, log,
                   calls, lastLost>>

\* recv(4096) returns: with everything the host has written so far, with
\* no bytes once the peer has closed the stream, or with OSError.  It
\* blocks while nothing has arrived on an open connection.
RecvWait(t) ==
    /\ pc[t] = "recv_wait"
    /\ pc' = [pc EXCEPT ![t] = "recv_ret"]
    /\ LET s == ret[t].sock
       IN IF socks[s].st = "open"
            THEN \/ /\ socks[s].inq # <<>>
                    /\ SetRet(t, "ok", s, socks[s].inq)
                    /\ socks' = [socks EXCEPT ![s].inq = <<>>]
                 \/ /\ socks[s].inq = <<>>
                    /\ socks[s].peer = "closed"
                    /\ SetRet(t, "ok", s, <<>>)
                    /\ UNCHANGED socks
                 \/ /\ SetRet(t, "oserror", s, <<>>)
                    /\ UNCHANGED socks
            ELSE SetRet(t, "oserror", s, <<>>) /\ UNCHANGED socks
    /\ UNCHANGED <<socket, connected, op, cur, req, outcome, log, calls,
                   lastLost>>

\* Line 94, response_data.decode: the bytes of one read, in the order they
\* arrived.  The first segment of a document followed by its rest is the
\* document.
Join(data) ==
    IF /\ Len(data) >= 2
       /\ data[1].shape = "head"
       /\ data[2].shape = "tail"
       /\ data[2].re = data[1].re
      THEN <<[data[1] EXCEPT !.shape = "object"]>> \o SubSeq(data, 3, Len(data))
      ELSE data

\* Lines 94-106 on the bytes received: [res, fault].  The message of an
\* error object is response["error"]["message"], "Unknown error" when the
\* object has none.
DecodeUnknownError(data) ==
    IF data = <<>>
      THEN [res |-> Raised("Exception", "not_json"), fault |-> "peer_closed"]
    ELSE IF Len(data) > 1 \/ data[1].shape \in {"garbage", "head", "tail"}
      THEN [res |-> Raised("Exception", "not_json"), fault |-> "malformed"]
    ELSE IF data[1].shape = "nondict"
      THEN [res |-> Raised("AttributeError", "get"), fault |-> "nondict"]
    ELSE IF data[1].error # "none"
      THEN [res |-> UnityError("Unknown error"), fault |-> "remote_error"]
    ELSE [res |-> Returned(data[1].result, data[1]), fault |-> ""]

DecodeWholeResponse(data) ==
    IF data = <<>>
      THEN [res |-> Raised("Exception", "not_json"), fault |-> "peer_closed"]
    ELSE IF Len(data) > 1 \/ data[1].shape \in {"garbage", "head", "tail"}
      THEN [res |-> Raised("Exception", "not_json"), fault |-> "malformed"]
    ELSE IF data[1].shape = "nondict"
      THEN [res |-> Raised("AttributeError", "get"), fault |-> "nondict"]
    ELSE IF data[1].error # "none"
      THEN [res |-> UnityError(IF data[1].error = "nomsg"
                                 THEN "Unknown error" ELSE data[1].error),
            fault |-> "remote_error"]
    ELSE [res |-> Returned(JDict(("id" :> JNum(data[1].id))
                                 @@ ("result" :> data[1].result)), data[1]),
          fault |-> ""]

Decode(data) ==
    IF data = <<>>
      THEN [res |-> Raised("Exception", "not_json"), fault |-> "peer_closed"]
    ELSE IF Len(data) > 1 \/ data[1].shape \in {"garbage", "head", "tail"}
      THEN [res |-> Raised("Exception", "not_json"), fault |-> "malformed"]
    ELSE IF data[1].shape = "nondict"
      THEN [res |-> Raised("AttributeError", "get"), fault |-> "nondict"]
    ELSE IF data[1].error # "none"
      THEN [res |-> UnityError(IF data[1].error = "nomsg"
                                 THEN "Unknown error" ELSE data[1].error),
            fault |-> "remote_error"]
    ELSE [res |-> Returned(data[1].result, data[1]), fault |-> ""]

\* Lines 94-113 after recv returned or raised.
RecvRetDisconnecting(t) ==
    /\ pc[t] = "recv_ret"
    /\ CASE ret[t].st = "ok" ->
              LET d == Decode(Join(ret[t].data))
              IN IF d.fault \in {"malformed", "peer_closed", "nondict"}
                   THEN SocketError(t, d.fault)
                   ELSE Finish(t, op[t], cur[t].name, d.res,
                               [log[t] EXCEPT !.fault = d.fault])
         [] ret[t].st = "oserror" -> SocketError(t, "recv_error")
         [] OTHER ->
              Finish(t, op[t], cur[t].name,
                     Raised("AttributeError", "no_socket"),
                     [log[t] EXCEPT !.fault = "no_socket"])
    /\ UNCHANGED <<socket, connected, socks, op, cur, req, ret, calls>>

RecvRet(t) ==
    /\ pc[t] = "recv_ret"
    /\ CASE ret[t].st = "ok" ->
              LET d == Decode(Join(ret[t].data))
              IN Finish(t, op[t], cur[t].name, d.res,
                        [log[t] EXCEPT !.fault = d.fault])
         [] ret[t].st = "oserror" -> SocketError(t, "recv_error")
         [] OTHER ->
              Finish(t, op[t], cur[t].name,
                     Raised("AttributeError", "no_socket"),
                     [log[t] EXCEPT !.fault = "no_socket"])
    /\ UNCHANGED <<socket, connected, socks, op, cur, req, ret, calls>>

\* Line 43, in the worker thread: self.socket.close().  The descriptor is
\* released, and what was buffered on it is dropped, even when close
\* raises.
CloseExec(t) ==
    /\ pc[t] = "close_exec"
    /\ pc' = [pc EXCEPT ![t] = "close_ret"]
    /\ IF socket = 0
         THEN SetRet(t, "attr", 0, <<>>) /\ UNCHANGED socks
         ELSE /\ socks' = [socks EXCEPT ![socket].st = "closed",
                                      ![socket].out = <<>>,
                                      ![socket].inq = <<>>]
              /\ \/ SetRet(t, "ok", socket, <<>>)
                 \/ SetRet(t, "oserror", socket, <<>>)
    /\ UNCHANGED <<socket, connected, op, cur, req, outcome, log, calls,
                   lastLost>>

\* Lines 44-48, then the caller: disconnect() returns None, line 110 of
\* send_command raises ConnectionError.
CloseRet(t) ==
    /\ pc[t] = "close_ret"
    /\ IF ret[t].st = "ok"
         THEN socket' = 0 /\ connected' = FALSE
         ELSE UNCHANGED <<socket, connected>>
    /\ Finish(t, op[t], cur[t].name,
              IF op[t] \in {"disconnect", "main"} THEN Returned(JNull, NoResp)
              ELSE Raised("ConnectionError", "lost"),
              [log[t] EXCEPT !.closeFailed = (ret[t].st # "ok")])
    /\ UNCHANGED <<socks, op, cur, req, ret, calls>>


(***************************************************************************)
(* main(), unity_mcp_server.py lines 241-259.                              *)
(***************************************************************************)
\* Lines 243-245: main enters its try block and awaits unity.connect().
\* main runs once per process and is none of the requests calls counts.
Main(t) ==
    /\ pc[t] = "idle"
    /\ op' = [op EXCEPT ![t] = "main"]
    /\ cur' = [cur EXCEPT ![t] = [name |-> "", args |-> JNull]]
    /\ ret' = [ret EXCEPT ![t] = NoRet]
    /\ SubmitConnect(t, StartLog)
    /\ outcome' = [outcome EXCEPT ![t] = NoOutcome]
    /\ UNCHANGED <<req, calls>>

\* Lines 33-37 of connect(), then main: after a successful connect the
\* server loop is entered (lines 248-254); the ConnectionError of a failed
\* one is caught at line 255 and the finally clause awaits
\* unity.disconnect() (line 259).
MainConnectRet(t) ==
    /\ pc[t] = "connect_ret"
    /\ op[t] = "main"
    /\ IF ret[t].st = "ok"
         THEN /\ connected' = TRUE
              /\ pc' = [pc EXCEPT ![t] = "serving"]
              /\ UNCHANGED <<outcome, log, lastLost>>
         ELSE /\ EnterDisconnect(t, "main", "", Returned(JNull, NoResp),
                                 [log[t] EXCEPT !.fault = "refused"])
              /\ UNCHANGED connected
    /\ UNCHANGED <<socket, socks, op, cur, req, ret, calls>>

\* Lines 249-259: app.run returns when its input ends, or raises; handlers
\* is the set of coroutines that serve requests inside the loop, none of
\* which is left running.  Either way the finally clause awaits
\* unity.disconnect().
MainExitWithoutFinally(t, handlers) ==
    /\ pc[t] = "serving"
    /\ \A h \in handlers : pc[h] = "idle"
    /\ \/ EnterDisconnect(t, "main", "", Returned(JNull, NoResp), log[t])
       \/ Finish(t, "main", "", Returned(JNull, NoResp),
                 [log[t] EXCEPT !.fault = "loop_error"])
    /\ UNCHANGED <<socket, connected, socks, op, cur, req, ret, calls>>

MainExit(t, handlers) ==
    /\ pc[t] = "serving"
    /\ \A h \in handlers : pc[h] = "idle"
    /\ \/ EnterDisconnect(t, "main", "", Returned(JNull, NoResp), log[t])
       \/ EnterDisconnect(t, "main", "", Returned(JNull, NoResp),
                          [log[t] EXCEPT !.fault = "loop_error"])
    /\ UNCHANGED <<socket, connected, socks, op, cur, req, ret, calls>>

\* The caller has the result; the coroutine is gone.
Return(t) ==
    /\ pc[t] = "done"
    /\ pc' = [pc EXCEPT ![t] = "idle"]
    /\ op' = [op EXCEPT ![t] = "none"]
    /\ cur' = [cur EXCEPT ![t] = [name |-> "", args |-> JNull]]
    /\ req' = [req EXCEPT ![t] = NoReq]
    /\ ret' = [ret EXCEPT ![t] = NoRet]
    /\ outcome' = [outcome EXCEPT ![t] = NoOutcome]
    /\ log' = [log EXCEPT ![t] = NoLog]
    /\ UNCHANGED <<socket, connected, socks, calls, lastLost>>

(***************************************************************************)
(* UnityMCPClient.send_request (unity_mcp_client.py): a blocking client    *)
(* that opens one socket per request.  The socket is the local variable s  *)
(* of the with statement, kept in ret[t].sock; self.socket and             *)
(* self.connected of UnityClient are not involved.                         *)
(***************************************************************************)
\* json.loads(v) on a Python value: [exc, val].  A string that holds a
\* JSON document yields the document; any other string raises
\* JSONDecodeError, a value that is no string TypeError.
Loads(v) ==
    IF v.kind # "str" THEN [exc |-> "TypeError", val |-> JNull]
    ELSE IF "json" \in DOMAIN v.items
      THEN [exc |-> "", val |-> v.items["json"]]
    ELSE [exc |-> "JSONDecodeError", val |-> JNull]

\* Lines 71-73: every exception ends in "return None".
ReturnedNone == Returned(JNull, NoResp)

\* Lines 56-69 on the chunks received: [res, fault].
McpDecode(data) ==
    LET d == Join(data)
    IN IF d = <<>>
         THEN [res |-> ReturnedNone, fault |-> "peer_closed"]
       ELSE IF Len(d) > 1 \/ d[1].shape # "object"
         THEN [res |-> ReturnedNone, fault |-> "malformed"]
       ELSE IF d[1].error # "none"
         THEN [res |-> ReturnedNone, fault |-> "remote_error"]
       ELSE LET l == Loads(d[1].result)
            IN IF l.exc # ""
                 THEN [res |-> ReturnedNone, fault |-> "result_not_json"]
                 ELSE [res |-> Returned(l.val, d[1]), fault |-> ""]

\* Leaving the with statement (line 40) closes the socket.
WithExit(s) ==
    socks' = [socks EXCEPT ![s].st = "closed", ![s].out = <<>>,
                           ![s].inq = <<>>]

\* send_request(method, params), lines 20-40: the request is built with a
\* uuid4 id (the call number stands for it) and the socket is created.
\* Line 35, json.dumps(request), stands before the try statement of line
\* 38: the TypeError it raises for params it cannot encode leaves
\* send_request.
SendRequest(t, method, params) ==
    /\ Begin(t, "send_request", method, params)
    /\ LET p == IF Truthy(params) THEN params ELSE EmptyDict
       IN IF ~Serializable(p)
            THEN /\ Finish(t, "send_request", method,
                           Raised("TypeError", "not_serializable"),
                           [StartLog EXCEPT !.fault = "not_serializable"])
                 /\ ret' = [ret EXCEPT ![t] = NoRet]
                 /\ UNCHANGED <<socket, connected, socks, req>>
            ELSE /\ FreeSocks # {}
                 /\ LET s == CHOOSE x \in FreeSocks :
                                 \A y \in FreeSocks : x <= y
                    IN /\ socks' = [socks EXCEPT ![s].st = "created"]
                       /\ SetRet(t, "none", s, <<>>)
                 /\ req' = [req EXCEPT ![t] =
                               [method |-> method, params |-> p,
                                id |-> calls + 1, call |-> calls + 1]]
                 /\ pc' = [pc EXCEPT ![t] = "sr_connect"]
                 /\ log' = [log EXCEPT ![t] = StartLog]
                 /\ outcome' = [outcome EXCEPT ![t] = NoOutcome]
                 /\ UNCHANGED <<socket, connected, lastLost>>

\* An exception inside the with statement: the socket is closed and
\* send_request returns None.
SRFail(t, fault) ==
    /\ WithExit(ret[t].sock)
    /\ Finish(t, op[t], cur[t].name, ReturnedNone,
              [log[t] EXCEPT !.fault = fault])

\* Line 42: s.connect((host, port)).
SRConnect(t) ==
    /\ pc[t] = "sr_connect"
    /\ \/ /\ socks' = [socks EXCEPT ![ret[t].sock].st = "open"]
          /\ pc' = [pc EXCEPT ![t] = "sr_send"]
          /\ log' = [log EXCEPT ![t].connects = @ + 1]
          /\ UNCHANGED <<outcome, lastLost>>
       \/ SRFail(t, "refused")
    /\ UNCHANGED <<socket, connected, op, cur, req, ret, calls>>

\* Line 45: s.sendall(request_json).
SRSend(t) ==
    /\ pc[t] = "sr_send"
    /\ \/ /\ socks' = [socks EXCEPT ![ret[t].sock].out =
                          IF socks[ret[t].sock].peer = "up"
                            THEN Append(@, req[t]) ELSE @]
          /\ pc' = [pc EXCEPT ![t] = "sr_recv"]
          /\ log' = [log EXCEPT ![t].writes = @ + 1]
          /\ UNCHANGED <<outcome, lastLost>>
       \/ SRFail(t, "send_error")
    /\ UNCHANGED <<socket, connected, op, cur, req, ret, calls>>

\* Lines 49-53, one turn of the loop: recv(4096) returns what has arrived
\* and the chunk is kept, or raises.
SRRecv(t) ==
    /\ pc[t] = "sr_recv"
    /\ LET s == ret[t].sock
       IN \/ /\ socks[s].inq # <<>>
             /\ ret' = [ret EXCEPT ![t].data = @ \o socks[s].inq]
             /\ socks' = [socks EXCEPT ![s].inq = <<>>]
             /\ UNCHANGED <<pc, outcome, log, lastLost>>
          \/ /\ SRFail(t, "recv_error")
             /\ UNCHANGED ret
    /\ UNCHANGED <<socket, connected, op, cur, req, calls>>

\* Lines 51-73: recv returns no bytes because the peer has closed, the
\* loop ends, the with statement closes the socket and the response is
\* parsed.
SRFinish(t) ==
    /\ pc[t] = "sr_recv"
    /\ socks[ret[t].sock].inq = <<>>
    /\ socks[ret[t].sock].peer = "closed"
    /\ WithExit(ret[t].sock)
    /\ LET d == McpDecode(ret[t].data)
       IN Finish(t, op[t], cur[t].name, d.res,
                 [log[t] EXCEPT !.fault = d.fault])
    /\ UNCHANGED <<socket, connected, op, cur, req, ret, calls>>

(***************************************************************************)
(* The Unity host at the other end of a connection.                        *)
(***************************************************************************)
\* The messages the host may put into an error object.
HostMessages == {"object not found", "not supported"}

\* What the host may answer to request r: the received params echoed as
\* result under the id of the request or under another id, an error
\* object with one of its messages or without a message, bytes that are
\* no JSON document, a JSON document that is no object.
Responses(r) ==
    {[shape |-> "object", error |-> "none", result |-> r.params, id |-> i,
      re |-> r.call, echo |-> TRUE] :
        i \in {r.id, CHOOSE j \in IdSet : j # r.id}}
    \cup
    {[shape |-> "object", error |-> e, result |-> JNull, id |-> r.id,
      re |-> r.call, echo |-> FALSE] : e \in HostMessages \cup {"nomsg"}}
    \cup
    {[shape |-> sh, error |-> "none", result |-> JNull, id |-> 0,
      re |-> r.call, echo |-> FALSE] : sh \in {"garbage", "nondict"}}

\* A response the host sends in two segments: the first holds the start
\* of the document, the second its rest.  Rest(r) stands in the queue of
\* the host for the second segment it still has to send.
HeadSegment(r) ==
    [shape |-> "head", error |-> "none", result |-> r.params, id |-> r.id,
     re |-> r.call, echo |-> TRUE]
TailSegment(r) ==
    [shape |-> "tail", error |-> "none", result |-> JNull, id |-> r.id,
     re |-> r.call, echo |-> FALSE]
Rest(r) == [r EXCEPT !.method = "", !.params = JNull]

\* The answer to the oldest unanswered request arrives.  Bytes that arrive
\* before recv is entered are seen by the client only through that recv,
\* so the model lets them arrive while a recv waits on the socket.
HostRespond(s) ==
    /\ socks[s].st = "open"
    /\ socks[s].peer = "up"
    /\ socks[s].out # <<>>
    /\ Head(socks[s].out).method # ""
    /\ \E t \in Tasks : pc[t] = "recv_wait" /\ ret[t].sock = s
    /\ \E resp \in Responses(Head(socks[s].out)) :
          socks' = [socks EXCEPT ![s].out = Tail(@),
                                 ![s].inq = Append(@, resp)]
    /\ UNCHANGED <<socket, connected, pc, op, cur, req, ret, outcome, log,
                   calls, lastLost>>

\* One segment arrives: the first segment of the answer to the oldest
\* unanswered request, or the rest of the answer the host has begun.
HostSegment(s) ==
    /\ socks[s].st = "open"
    /\ socks[s].peer = "up"
    /\ socks[s].out # <<>>
    /\ \E t \in Tasks : pc[t] = "recv_wait" /\ ret[t].sock = s
    /\ LET r == Head(socks[s].out)
       IN IF r.method = ""
            THEN socks' = [socks EXCEPT ![s].out = Tail(@),
                                        ![s].inq = Append(@, TailSegment(r))]
            ELSE socks' = [socks EXCEPT
                              ![s].out = <<Rest(r)>> \o Tail(@),
                              ![s].inq = Append(@, HeadSegment(r))]
    /\ UNCHANGED <<socket, connected, pc, op, cur, req, ret, outcome, log,
                   calls, lastLost>>

\* The results the host may put into its answer to a send_request: the
\* received params as a string holding their JSON text (a host that
\* stringifies its result), and values that are no string or no JSON text:
\* the params themselves, an array, a number, a boolean, a plain string.
McpResults(r) ==
    {Dumps(r.params), r.params, JList(3), JNum(5), JBool(1), JStr(1)}

McpResponses(r) ==
    {[shape |-> "object", error |-> "none", result |-> v, id |-> r.id,
      re |-> r.call, echo |-> FALSE] : v \in McpResults(r)}
    \cup
    {[shape |-> "object", error |-> "object not found", result |-> JNull,
      id |-> r.id, re |-> r.call, echo |-> FALSE],
     [shape |-> "garbage", error |-> "none", result |-> JNull, id |-> 0,
      re |-> r.call, echo |-> FALSE]}

\* The answer to the request of a send_request arrives.
McpHostRespond(s) ==
    /\ socks[s].st = "open"
    /\ socks[s].peer = "up"
    /\ socks[s].out # <<>>
    /\ \E t \in Tasks : pc[t] = "sr_recv" /\ ret[t].sock = s
    /\ \E resp \in McpResponses(Head(socks[s].out)) :
          socks' = [socks EXCEPT ![s].out = Tail(@),
                                 ![s].inq = Append(@, resp)]
    /\ UNCHANGED <<socket, connected, pc, op, cur, req, ret, outcome, log,
                   calls, lastLost>>

\* The host closes the stream; what it had not read is lost.
HostClose(s) ==
    /\ socks[s].st = "open"
    /\ socks[s].peer = "up"
    /\ socks' = [socks EXCEPT ![s].peer = "closed", ![s].out = <<>>]
    /\ UNCHANGED <<socket, connected, pc, op, cur, req, ret, outcome, log,
                   calls, lastLost>>

(***************************************************************************)
(* Inputs.                                                                 *)
(***************************************************************************)
\* The mappings with at most the key k, with a value of vals.
Opt(k, vals) == {NoItems} \cup {(k :> v) : v \in vals}

RequiredValues == {JNull, JStr(0), JStr(1)}
ArrayValues == {JNull, JStr(1)} \cup {JList(n) : n \in 2..MaxLen}
OtherItems ==
    {("params" :> JNull), ("params" :> JDict(("location" :> JList(2)))),
     ("note" :> JStr(1))}

\* Mappings for a tool: its required field absent, null, empty or set,
\* alone or with a key the tool does not declare; and its required field
\* absent or set, with one of its array fields or with "params".
MappingsFor(name) ==
    LET reqs == UNION {Opt(k, RequiredValues) : k \in SchemaRequired(name)}
                \cup {NoItems}
        good == UNION {Opt(k, {JStr(1)}) : k \in SchemaRequired(name)}
                \cup {NoItems}
        arrs == UNION {Opt(k, ArrayValues) : k \in SchemaArrays(name)}
    IN {JDict(a @@ b) : a \in reqs, b \in {NoItems, ("note" :> JStr(1))}}
       \cup {JDict(a @@ b) : a \in good, b \in arrs \cup OtherItems}

\* Arguments that are no mapping: None, "", " ", two command lines (one on
\* which eval raises), a number.
NonMappings ==
    {JNull, JStr(0), JStr(1), JLine(9, ("type" :> JStr(1))),
     JLine(9, ("location" :> JBad)), JNum(5)}

ArgumentsFor(name) == MappingsFor(name) \cup NonMappings

\* Inputs of the direct send_command calls.
Methods == {"get_scene_info", "get_object_info"}
Params ==
    {JNull, EmptyDict, JDict(("object_name" :> JStr(1))),
     JDict(("params" :> JDict(("object_name" :> JStr(1))))),
     JDict(("object_name" :> JStr(1)) @@ ("params" :> JNull))}

\* Inputs of the concurrent callers.
ConcInputs ==
    {[name |-> "get_scene_info", args |-> EmptyDict],
     [name |-> "get_object_info",
      args |-> JDict(("object_name" :> JStr(1)))]}

(***************************************************************************)
(* Specifications.                                                         *)
(***************************************************************************)
Worker(t) ==
    \/ ConnectExec(t) \/ ConnectRet(t)
    \/ SendExec(t) \/ SendRet(t)
    \/ RecvExec(t) \/ RecvWait(t) \/ RecvRet(t)
    \/ CloseExec(t) \/ CloseRet(t)
    \/ Return(t)

Host == \E s \in SockIds : HostRespond(s) \/ HostClose(s)

\* One caller at a time, every input.
Next ==
    \/ \E name \in ToolNames : \E a \in ArgumentsFor(name) :
          CallTool(1, name, a)
    \/ \E m \in Methods : \E p \in Params : SendCommand(1, m, p)
    \/ Connect(1)
    \/ Disconnect(1)
    \/ Worker(1)
    \/ Host

Spec == Init /\ [][Next]_vars

\* One caller, a host that may send its answers in segments.
NextSeg ==
    \/ \E p \in Params : SendCommand(1, "get_scene_info", p)
    \/ Worker(1)
    \/ Host
    \/ \E s \in SockIds : HostSegment(s)

SpecSeg == Init /\ [][NextSeg]_vars

\* What the scheduling guarantees to coroutine t: the event loop resumes a
\* coroutine whose await has completed, a worker thread runs the call
\* handed to it, and recv returns once bytes have arrived or the peer has
\* closed.  Nothing obliges the host to answer, nor a socket to fail.
Fairness(t) ==
    /\ WF_vars(ConnectExec(t)) /\ WF_vars(ConnectRet(t))
    /\ WF_vars(SendExec(t)) /\ WF_vars(SendRet(t))
    /\ WF_vars(RecvExec(t)) /\ WF_vars(RecvRet(t))
    /\ WF_vars(RecvWait(t) /\ ret'[t].st = "ok")
    /\ WF_vars(CloseExec(t)) /\ WF_vars(CloseRet(t))
    /\ WF_vars(Return(t))

\* One caller of call_tool, scheduled fairly.
NextLive ==
    \/ \E i \in ConcInputs : CallTool(1, i.name, i.args)
    \/ Worker(1)
    \/ Host

SpecLive == Init /\ [][NextLive]_vars /\ Fairness(1)

\* The resource and tool listing handlers of the server, one request at a
\* time.  A URI is its text; an object may have any name, also one that
\* contains the text of a scheme.
Uris ==
    {"scene://current", "object://Cube", "object://Cube/object://2",
     "material://Steel", "file://Cube", "scene://other"}

NextRes ==
    \/ \E uri \in Uris : ReadResource(1, uri)
    \/ ListTools(1)
    \/ Worker(1)
    \/ Host

SpecRes == Init /\ [][NextRes]_vars

\* The process: coroutine 2 runs main(), coroutine 1 the handlers that
\* the server loop starts while it runs.
NextMain ==
    \/ Main(2)
    \/ ConnectExec(2) \/ MainConnectRet(2)
    \/ MainExit(2, {1})
    \/ CloseExec(2) \/ CloseRet(2)
    \/ /\ pc[2] = "serving"
       /\ \E i \in ConcInputs : CallTool(1, i.name, i.args)
    \/ Worker(1)
    \/ Host

SpecMain == Init /\ [][NextMain]_vars

\* One caller of UnityMCPClient.send_request.
McpParams ==
    {JNull, JDict(("object_name" :> JStr(1))),
     JDict(("object_name" :> JObj))}

NextMcp ==
    \/ \E p \in McpParams : SendRequest(1, "get_object_info", p)
    \/ SRConnect(1) \/ SRSend(1) \/ SRRecv(1) \/ SRFinish(1)
    \/ Return(1)
    \/ \E s \in SockIds : McpHostRespond(s) \/ HostClose(s)

SpecMcp == Init /\ [][NextMcp]_vars

\* Two coroutines on the one module-level client.
NextConc ==
    \/ \E t \in Tasks : \E i \in ConcInputs : CallTool(t, i.name, i.args)
    \/ \E t \in Tasks : Disconnect(t)
    \/ \E t \in Tasks : Worker(t)
    \/ Host

SpecConc == Init /\ [][NextConc]_vars


(***************************************************************************)
(* Properties.                                                             *)
(***************************************************************************)
Finished(t, o) == pc[t] = "done" /\ op[t] = o

\* The result is an error text naming the tool.
IsErrorText(t) ==
    /\ outcome[t].kind = "text"
    /\ outcome[t].exc # ""
    /\ Len(outcome[t].msg) >= 3
    /\ outcome[t].msg[1] = "Error calling tool"
    /\ outcome[t].msg[2] = cur[t].name

\* Field f of arguments a is absent, null or empty.
FieldMissing(a, f) ==
    \/ a.kind # "dict"
    \/ f \notin DOMAIN a.items
    \/ a.items[f].kind = "null"
    \/ (a.items[f].kind \in {"str", "list"} /\ a.items[f].n = 0)

Disconnected == ~connected /\ socket = 0

\* C1: call_tool never raises.  Whatever the name, the arguments and the
\* transport outcome, a finished call_tool has returned one text; when the
\* validation or the transport failed, that text is the error message of
\* the failure, and otherwise it is the serialized result of the host.
CallToolNeverRaises ==
    \A t \in Tasks :
        Finished(t, "call_tool") =>
            /\ outcome[t].kind = "text"
            /\ IF Gateway(cur[t].name, cur[t].args).exc # ""
                    \/ log[t].fault # ""
                 THEN IsErrorText(t)
                 ELSE outcome[t].exc = "" /\ outcome[t].resp.shape = "object"

\* A call_tool whose recv raised a socket error and whose socket then
\* failed to close has returned its error text.
CallToolFailureReported ==
    \E t \in Tasks :
        /\ Finished(t, "call_tool")
        /\ log[t].fault = "recv_error"
        /\ log[t].closeFailed
        /\ IsErrorText(t)

\* C2: for every tool whose schema declares a required field, call_tool
\* with that field absent, null or empty returns a validation error and
\* never invokes send_command.
RequiredFieldEnforced ==
    \A t \in Tasks :
        (/\ Finished(t, "call_tool")
         /\ \E f \in SchemaRequired(cur[t].name) :
                FieldMissing(cur[t].args, f))
        => (IsErrorText(t) /\ ~log[t].invoked)

\* C3: for every array parameter the schemas declare with an arity, a list
\* whose length is outside the arity gets a validation error and no
\* send_command, and a list whose length is inside it passes validation
\* (the required field being given).
ArrayArityEnforced ==
    \A t \in Tasks :
        Finished(t, "call_tool") /\ cur[t].args.kind = "dict" =>
            \A f \in SchemaArrays(cur[t].name) \cap DOMAIN cur[t].args.items :
                LET v == cur[t].args.items[f]
                IN v.kind = "list" =>
                     IF v.n \in SchemaArity(f)
                       THEN (\A r \in SchemaRequired(cur[t].name) :
                                ~FieldMissing(cur[t].args, r))
                            => log[t].invoked
                       ELSE IsErrorText(t) /\ ~log[t].invoked

\* C4: call_tool with a name that is no command of UNITY_COMMANDS returns
\* an error result and never invokes send_command.
UnknownToolRejected ==
    \A t \in Tasks :
        Finished(t, "call_tool") /\ cur[t].name \notin UNITY_COMMANDS
        => (IsErrorText(t) /\ ~log[t].invoked)

\* The coroutines whose request is written and whose response is not read.
InFlight ==
    {t \in Tasks : log[t].writes > 0
                   /\ pc[t] \in {"send_ret", "recv_exec", "recv_wait"}}

\* C5: at most one request is in flight on the shared connection, and no
\* caller gets the response to the request of another caller.
OneRequestInFlight ==
    /\ Cardinality(InFlight) <= 1
    /\ \A t \in Tasks :
          pc[t] = "done" /\ outcome[t].resp.shape # "none"
          => outcome[t].resp.re = req[t].call

\* C6: a response whose id differs from the id of the pending request is
\* not returned as the answer to that request.
MismatchedIdRejected ==
    \A t \in Tasks :
        pc[t] = "done" /\ outcome[t].resp.shape # "none"
        => outcome[t].resp.id = req[t].id

\* C7: round trip.  With a host that echoes the params it received as
\* result, send_command(M, P) returns P for every mapping P.
RoundTrip ==
    \A t \in Tasks :
        (/\ Finished(t, "send_command")
         /\ cur[t].args.kind = "dict"
         /\ outcome[t].kind = "returned"
         /\ outcome[t].resp.echo)
        => outcome[t].val = cur[t].args

\* C8: when sendall or recv raised a socket error, send_command raises
\* ConnectionError and the client is Disconnected when the error reaches
\* the caller.
SocketErrorDisconnects ==
    \A t \in Tasks :
        Finished(t, "send_command")
          /\ log[t].fault \in {"send_error", "recv_error"}
        => /\ outcome[t].kind = "raised"
           /\ outcome[t].exc = "ConnectionError"
           /\ Disconnected

\* C9: after a send_command that lost its connection (socket error in
\* sendall or recv, or recv returning no bytes) the client is Disconnected,
\* and the next send_command calls connect() before it sends.
LostConnectionHeals ==
    \A t \in Tasks :
        /\ (pc[t] = "done" /\ log[t].fault \in LostFaults) => Disconnected
        /\ (log[t].after /\ pc[t] = "send_exec") => log[t].connects > 0

\* C10: disconnect() never raises and leaves the client Disconnected,
\* also on a client that never connected or whose connect() failed.
DisconnectAlwaysDisconnected ==
    \A t \in Tasks :
        Finished(t, "disconnect") =>
            outcome[t].kind = "returned" /\ Disconnected

\* The client is Connected as the code itself tests it (lines 41 and 65).
StateConnected == connected /\ socket # 0

\* C11: connect() is idempotent.  A connect() called while the client is
\* Connected creates no socket and leaves self.socket, the socket objects
\* and the connected flag as they were.
ConnectIdempotent ==
    [][\A t \in Tasks :
          (StateConnected /\ Connect(t))
          => (socket' = socket /\ socks' = socks /\ connected' = connected)
      ]_vars

\* C12: when the connect attempt fails, connect() and a send_command that
\* connected lazily raise ConnectionError, nothing was written, and the
\* client is not Connected afterwards.
RefusedConnectDisconnected ==
    \A t \in Tasks :
        (/\ pc[t] = "done"
         /\ op[t] \in {"connect", "send_command"}
         /\ log[t].fault = "refused")
        => /\ outcome[t].kind = "raised"
           /\ outcome[t].exc = "ConnectionError"
           /\ log[t].writes = 0
           /\ ~StateConnected

\* C13: every request carries a fresh correlation id.  The requests that
\* two send_command calls on the client have written carry different ids,
\* also when both calls were made with empty or absent params.
FreshCorrelationId ==
    \A t1, t2 \in Tasks :
        (t1 # t2 /\ log[t1].writes > 0 /\ log[t2].writes > 0)
        => req[t1].id # req[t2].id

\* The bytes the recv of coroutine t returned are one response object.
GotObject(t) ==
    /\ pc[t] = "done"
    /\ ret[t].st = "ok"
    /\ Len(Join(ret[t].data)) = 1
    /\ Join(ret[t].data)[1].shape = "object"

\* Message m is part of the text msg.
Contains(msg, m) == \E i \in DOMAIN msg : msg[i] = m

\* C14: when the response carries an error object with a message,
\* send_command raises an error whose message contains that message and
\* returns no result, and call_tool returns an error text that contains
\* the tool name and that message.
RemoteErrorReported ==
    \A t \in Tasks :
        (GotObject(t) /\ ret[t].data[1].error \in HostMessages) =>
            /\ outcome[t].val = JNull
            /\ outcome[t].resp = NoResp
            /\ Contains(outcome[t].msg, ret[t].data[1].error)
            /\ IF op[t] = "call_tool"
                 THEN IsErrorText(t)
                 ELSE outcome[t].kind = "raised"

\* A call_tool has been answered with an error object and has returned a
\* text made of the tool name and the message of the host.
RemoteErrorSeen ==
    \E t \in Tasks :
        /\ GotObject(t)
        /\ op[t] = "call_tool"
        /\ ret[t].data[1].error = "object not found"
        /\ outcome[t].msg =
              <<"Error calling tool", cur[t].name, "Unity error",
                "object not found">>

\* The faults of a send_command whose received bytes are no JSON response:
\* no JSON document, no bytes at all, a document that is no object.
DecodeFaults == {"malformed", "peer_closed", "nondict"}

\* C15: when the bytes received cannot be decoded as a JSON response,
\* send_command raises an error that is no ConnectionError, has written
\* its request once, and leaves the connection as it was before the
\* receive: connected, with the socket it received on, still open.
MalformedConfined ==
    \A t \in Tasks :
        (pc[t] = "done" /\ log[t].fault \in DecodeFaults) =>
            /\ outcome[t].exc \notin {"", "ConnectionError"}
            /\ (op[t] = "send_command" => outcome[t].kind = "raised")
            /\ log[t].writes = 1
            /\ connected
            /\ socket = ret[t].sock
            /\ socks[socket].st = "open"

\* A send_command has received bytes that are no JSON document and has
\* raised.
MalformedSeen ==
    \E t \in Tasks :
        /\ Finished(t, "send_command")
        /\ log[t].fault = "malformed"
        /\ Len(ret[t].data) = 1
        /\ ret[t].data[1].shape = "garbage"
        /\ outcome[t].kind = "raised"
        /\ outcome[t].exc = "Exception"

\* The faults of the transport: the connect failed, sendall or recv raised
\* a socket error.
TransportFaults == {"refused", "send_error", "recv_error"}

\* C16: no automatic retry.  One send_command invocation, made directly or
\* by call_tool, calls connect() at most once and writes its request at
\* most once, and a transport failure reaches the caller as
\* ConnectionError.
NoAutomaticRetry ==
    \A t \in Tasks :
        op[t] \in {"send_command", "call_tool"} =>
            /\ log[t].connects <= 1
            /\ log[t].writes <= 1
            /\ (pc[t] = "done" /\ log[t].fault \in TransportFaults)
               => /\ outcome[t].exc = "ConnectionError"
                  /\ outcome[t].val = JNull
                  /\ (op[t] = "send_command" => outcome[t].kind = "raised")

\* A send_command has connected lazily, written its request, failed in
\* recv and raised ConnectionError.
TransportFailurePropagated ==
    \E t \in Tasks :
        /\ Finished(t, "send_command")
        /\ log[t].connects = 1
        /\ log[t].writes = 1
        /\ log[t].fault = "recv_error"
        /\ outcome[t].kind = "raised"
        /\ outcome[t].exc = "ConnectionError"

\* C17: on success the gateway returns the result of the host.  When a
\* call_tool that passed validation receives one response object with a
\* result R and no error, the text it returns is json.dumps of R.
ResultReturned ==
    \A t \in Tasks :
        (/\ GotObject(t)
         /\ op[t] = "call_tool"
         /\ ret[t].data[1].error = "none")
        => /\ outcome[t].kind = "text"
           /\ outcome[t].exc = ""
           /\ outcome[t].val = Dumps(ret[t].data[1].result)

\* create_object with a type and a 3-element location has been answered
\* with a result holding these two fields, and the text returned holds
\* both.
ResultSeen ==
    \E t \in Tasks :
        /\ GotObject(t)
        /\ op[t] = "call_tool"
        /\ cur[t].name = "create_object"
        /\ ret[t].data[1].error = "none"
        /\ ret[t].data[1].result =
              JDict(("type" :> JStr(1)) @@ ("location" :> JList(3)))
        /\ outcome[t].kind = "text"
        /\ outcome[t].val.items["json"] = ret[t].data[1].result

\* C18: for set_material with a non-empty object_name, a color that is a
\* list of fewer than 3 or more than 4 elements makes call_tool return a
\* validation error, with no connect attempted and nothing written.
BadColorRejected ==
    \A t \in Tasks :
        (/\ Finished(t, "call_tool")
         /\ cur[t].name = "set_material"
         /\ Has(cur[t].args, "object_name")
         /\ Truthy(cur[t].args.items["object_name"])
         /\ Has(cur[t].args, "color")
         /\ cur[t].args.items["color"].kind = "list"
         /\ cur[t].args.items["color"].n \notin {3, 4})
        => /\ IsErrorText(t)
           /\ outcome[t].exc = "ValueError"
           /\ ~log[t].invoked
           /\ log[t].connects = 0
           /\ log[t].writes = 0
           /\ req[t] = NoReq

\* set_material with an object_name and a 2-element color has returned
\* its validation error.
ShortColorRejected ==
    \E t \in Tasks :
        /\ Finished(t, "call_tool")
        /\ cur[t].name = "set_material"
        /\ cur[t].args =
              JDict(("object_name" :> JStr(1)) @@ ("color" :> JList(2)))
        /\ outcome[t].msg = <<"Error calling tool", "set_material", "color">>
        /\ log[t].writes = 0

\* The array parameters the claim names: create_object location, rotation
\* and scale, set_material color.
CheckedArrays(name) ==
    IF name \in {"create_object", "set_material"}
      THEN SchemaArrays(name) ELSE {}

\* C19: a value that is no array, null included, supplied for an array
\* parameter of create_object or set_material is rejected by call_tool
\* before send_command is invoked.
NonArrayRejected ==
    \A t \in Tasks :
        (/\ Finished(t, "call_tool")
         /\ \E f \in CheckedArrays(cur[t].name) :
               Has(cur[t].args, f) /\ cur[t].args.items[f].kind # "list")
        => (IsErrorText(t) /\ ~log[t].invoked)

\* C20: for a command of the catalog without a required parameter,
\* call_tool with an empty or absent argument mapping invokes
\* send_command, and the request it builds has the empty mapping as
\* params.
EmptyArgumentsForwarded ==
    \A t \in Tasks :
        (/\ Finished(t, "call_tool")
         /\ cur[t].name \in UNITY_COMMANDS
         /\ SchemaRequired(cur[t].name) = {}
         /\ cur[t].args \in {JNull, EmptyDict})
        => /\ log[t].invoked
           /\ (log[t].writes > 0 => req[t].params = EmptyDict)

\* Mapping a without the keys that are not in keys.
Restrict(a, keys) ==
    JDict([k \in DOMAIN a.items \cap keys |-> a.items[k]])

\* C21: an argument that is not declared for the command never causes a
\* validation error.  When the declared part of an argument mapping passes
\* validation, the whole mapping passes too and send_command is invoked.
UndeclaredKeysPass ==
    \A t \in Tasks :
        (/\ Finished(t, "call_tool")
         /\ cur[t].args.kind = "dict"
         /\ Gateway(cur[t].name,
                    Restrict(cur[t].args, SchemaProperties(cur[t].name))).exc
               = "")
        => log[t].invoked

\* create_object with a type and an undeclared key has been forwarded and
\* its request written.
UndeclaredKeyForwarded ==
    \E t \in Tasks :
        /\ Finished(t, "call_tool")
        /\ cur[t].name = "create_object"
        /\ cur[t].args = JDict(("type" :> JStr(1)) @@ ("note" :> JStr(1)))
        /\ log[t].invoked
        /\ log[t].writes = 1

\* C22: a response that the host delivers in several segments is decoded
\* as one whole document.  A send_command whose recv returned the first
\* segment of a response returns the result of that response.
SegmentedResponseDecoded ==
    \A t \in Tasks :
        (/\ pc[t] = "done"
         /\ ret[t].st = "ok"
         /\ ret[t].data # <<>>
         /\ ret[t].data[1].shape = "head")
        => /\ outcome[t].exc = ""
           /\ outcome[t].resp.re = ret[t].data[1].re
           /\ outcome[t].resp.result = ret[t].data[1].result

\* C23: every call_tool invocation eventually returns a result, also when
\* the host accepts the request and never answers: an invocation that has
\* started is finished at some later time.
CallToolEventuallyReturns ==
    \A t \in Tasks : (op[t] = "call_tool") ~> (pc[t] = "done")

\* C24: send_request returns the result payload whether or not the host
\* stringifies it.  When no socket call failed and the chunks received are
\* one response object with a result and no error, a result that is a
\* string holding a JSON document comes back as that document, and a
\* result that is an object, array, number or boolean comes back as it is.
ResultPayloadReturned ==
    \A t \in Tasks :
        (/\ Finished(t, "send_request")
         /\ log[t].fault \notin {"refused", "send_error", "recv_error"}
         /\ Len(ret[t].data) = 1
         /\ ret[t].data[1].shape = "object"
         /\ ret[t].data[1].error = "none")
        => LET R == ret[t].data[1].result
           IN /\ (Loads(R).exc = "" => outcome[t].val = Loads(R).val)
              /\ (R.kind \in {"dict", "list", "num", "bool"}
                  => outcome[t].val = R)

\* C25: the connection state changes only through connect, disconnect and
\* socket-failure detection.  A send_command that returned a result or
\* raised a remote error leaves the flag and the socket as they were before
\* the call, or, when it connected lazily, as its connect() set them; a
\* call_tool that failed validation leaves them as they were before.
ConnectionStateFramed ==
    \A t \in Tasks :
        (/\ pc[t] = "done"
         /\ op[t] \in {"send_command", "call_tool"})
        => /\ (log[t].invoked /\ log[t].fault \in {"", "remote_error"}
               => IF log[t].connects = 0
                    THEN /\ socket = log[t].pre.socket
                         /\ connected = log[t].pre.connected
                    ELSE /\ socket = ret[t].sock
                         /\ socket # log[t].pre.socket
                         /\ connected)
           /\ (~log[t].invoked
               => /\ socket = log[t].pre.socket
                  /\ connected = log[t].pre.connected)

\* A call_tool on an established connection has failed validation, and
\* the connection is still the one it found.
ValidationFailedConnected ==
    \E t \in Tasks :
        /\ Finished(t, "call_tool")
        /\ ~log[t].invoked
        /\ log[t].pre.connected
        /\ log[t].pre.socket # 0
        /\ connected
        /\ socket = log[t].pre.socket

\* C26: the tool surface is generated from the catalog.  list_tools
\* returns one tool for each command of UNITY_COMMANDS and for no other
\* name, each with the description the catalog gives the command.
ToolsFromCatalog ==
    \A t \in Tasks :
        Finished(t, "list_tools")
        => LET tools == outcome[t].msg
               count == Len(tools) \div 2
           IN /\ {tools[2 * i - 1] : i \in 1..count} = UNITY_COMMANDS
              /\ count = Cardinality(UNITY_COMMANDS)
              /\ \A i \in 1..count :
                    tools[2 * i] = CommandDescription(tools[2 * i - 1])

\* C27: lazy connect.  A send_command invoked while the client is
\* disconnected calls connect() before any byte of the request is written;
\* one invoked while the client is connected with a socket does not call
\* connect() and writes its request on that socket.
LazyConnect ==
    \A t \in Tasks :
        (op[t] \in {"send_command", "call_tool"} /\ log[t].invoked)
        => IF log[t].pre.connected /\ log[t].pre.socket # 0
             THEN /\ log[t].connects = 0
                  /\ (pc[t] = "send_ret" /\ ret[t].st = "ok"
                      => ret[t].sock = log[t].pre.socket)
             ELSE /\ log[t].connects = 1
                  /\ (log[t].writes > 0 => pc[t] \notin {"connect_exec",
                                                         "connect_ret"})

\* A send_command on a disconnected client has connected and then written
\* its request.
ConnectedLazily ==
    \E t \in Tasks :
        /\ Finished(t, "send_command")
        /\ ~log[t].pre.connected
        /\ log[t].connects = 1
        /\ log[t].writes = 1

\* C28: validation fails fast in a fixed order.  For a mapping, the
\* empty-arguments check comes first, then the required-field check, then
\* the array checks: create_object without type, or set_material without
\* object_name, is answered with the required-field error also when an
\* array of the mapping has a wrong length, and a failed validation
\* reports one error.
ValidationOrder ==
    \A t \in Tasks :
        (Finished(t, "call_tool") /\ cur[t].args.kind = "dict")
        => LET name == cur[t].name
               a == cur[t].args
               both == {"create_object", "set_material"}
               error(m) == <<"Error calling tool", name, m>>
           IN /\ (name # "get_scene_info" /\ a = EmptyDict
                  => outcome[t].msg = error("empty"))
              /\ \A k \in SchemaRequired(name) :
                    (/\ name \in both
                     /\ a # EmptyDict
                     /\ (k \notin DOMAIN a.items
                         \/ a.items[k] \in {JNull, JStr(0)}))
                    => outcome[t].msg = error(k)
              /\ \A k \in SchemaArrays(name) :
                    (/\ name \in both
                     /\ \A r \in SchemaRequired(name) :
                           r \in DOMAIN a.items /\ a.items[r] = JStr(1)
                     /\ k \in DOMAIN a.items
                     /\ a.items[k].kind = "list"
                     /\ a.items[k].n \notin SchemaArity(k))
                    => outcome[t].msg = error(k)
              /\ (~log[t].invoked => Len(outcome[t].msg) = 3)

\* create_object without type and with a 2-element location has been
\* answered with the error about type.
RequiredReportedBeforeArray ==
    \E t \in Tasks :
        /\ Finished(t, "call_tool")
        /\ cur[t].name = "create_object"
        /\ cur[t].args = JDict(("location" :> JList(2)))
        /\ outcome[t].msg = <<"Error calling tool", "create_object", "type">>

\* C30: the lifecycle of main().  The server loop starts only with the
\* start-up connect() having succeeded, so that no tool call is served
\* after a failed start-up connect; and main does not end without having
\* called disconnect(), which it calls only after the server loop.
MainLifecycle ==
    /\ [][\A t \in Tasks :
             (op'[t] = "main" /\ pc[t] # "serving" /\ pc'[t] = "serving")
             => /\ connected'
                /\ socket' # 0
                /\ socks'[socket'].st = "open"]_vars
    /\ [](\A t \in Tasks :
             op[t] = "main"
             => /\ (log[t].fault = "refused"
                    => /\ pc[t] # "serving"
                       /\ \A h \in Tasks \ {t} : op[h] = "none"
                       /\ calls = 0)
                /\ (pc[t] = "serving" => log[t].disconnects = 0)
                /\ (pc[t] = "done" => log[t].disconnects = 1))

\* main has run its server loop, a tool call was served in it, and main
\* has ended with disconnect() called.
MainServedAndEnded ==
    \E t \in Tasks :
        /\ Finished(t, "main")
        /\ log[t].fault \in {"", "loop_error"}
        /\ calls >= 1
        /\ log[t].disconnects = 1

\* The name a URI of the form object://<name> carries.
UriName(uri) == SubSeq(uri, Len("object://") + 1, Len(uri))

\* C29: read_resource makes one get_scene_info call with empty params for
\* scene://current and one get_object_info call with object_name set to
\* the URI's name for object://<name>, and returns the result of that call
\* as text; for material://<name> it does not touch the transport; for
\* any other URI and for any failed call it raises an exception.
ReadResourceContract ==
    \A t \in Tasks :
        Finished(t, "read_resource")
        => LET uri == cur[t].name
           IN /\ (uri = "scene://current"
                  => /\ log[t].invoked
                     /\ req[t].method = "get_scene_info"
                     /\ req[t].params = EmptyDict)
              /\ (StartsWith(uri, "object://")
                  => /\ log[t].invoked
                     /\ req[t].method = "get_object_info"
                     /\ req[t].params =
                           JDict(("object_name" :> JStr(Len(UriName(uri))))))
              /\ (log[t].invoked => log[t].writes <= 1)
              /\ (log[t].invoked /\ log[t].fault = ""
                  => /\ outcome[t].kind = "contents"
                     /\ outcome[t].val = Dumps(outcome[t].resp.result))
              /\ (StartsWith(uri, "material://")
                  => /\ ~log[t].invoked
                     /\ log[t].connects = 0
                     /\ log[t].writes = 0
                     /\ socket = log[t].pre.socket
                     /\ connected = log[t].pre.connected
                     /\ outcome[t].kind = "contents")
              /\ (/\ uri # "scene://current"
                  /\ ~StartsWith(uri, "object://")
                  /\ ~StartsWith(uri, "material://")
                  => outcome[t].kind = "raised")
              /\ (log[t].fault # "" => outcome[t].kind = "raised")

\* C31: what is validated is what is sent.  The params of the request a
\* call_tool has written are the argument mapping its validation checked,
\* and the params of a create_object request pass the create_object
\* checks, also when the arguments hold a key "params".
ValidatedIsSent ==
    \A t \in Tasks :
        (op[t] = "call_tool" /\ log[t].invoked /\ log[t].writes > 0)
        => /\ req[t].params = Gateway(cur[t].name, cur[t].args).args
           /\ (cur[t].name = "create_object"
               => SpecialValidation("create_object", req[t].params).exc = "")

\* C32: in a sequential series of send_command calls, with a host that
\* answers each request with one whole document, a call that returns a
\* result returns the result of its own request, whatever way the calls
\* before it ended.
OwnResultReturned ==
    \A t \in Tasks :
        (/\ pc[t] = "done"
         /\ op[t] \in {"send_command", "call_tool"}
         /\ log[t].invoked
         /\ log[t].fault = "")
        => /\ outcome[t].resp.shape = "object"
           /\ outcome[t].resp.re = req[t].call

\* The second call of a series has returned the result of its own
\* request on a new connection, the call before it having lost the
\* connection.
OwnResultAfterReconnect ==
    \E t \in Tasks :
        /\ Finished(t, "send_command")
        /\ log[t].fault = ""
        /\ log[t].after
        /\ log[t].connects = 1
        /\ req[t].call = 2
        /\ outcome[t].resp.re = 2

\* The sockets that exist: created and not closed.
LiveSockets == {s \in SockIds : socks[s].st \in {"created", "open"}}

\* C33: two send_command calls that start concurrently on a disconnected
\* client open at most one socket between them, and no socket a lazy
\* connect created exists without being the client's socket.
OneSocketForConcurrentCalls ==
    (\A t \in Tasks :
        /\ op[t] = "call_tool"
        /\ log[t].invoked
        /\ ~log[t].pre.connected)
    => /\ log[1].connects + log[2].connects <= 1
       /\ LiveSockets \subseteq {socket}

\* C34: no socket outlives disconnect.  When a disconnect() has returned
\* normally, every socket the client created is closed and self.socket is
\* None.
NoSocketOutlivesDisconnect ==
    \A t \in Tasks :
        (Finished(t, "disconnect") /\ outcome[t].kind = "returned")
        => /\ socket = 0
           /\ LiveSockets = {}

\* C35: between operations, connected = True implies that self.socket is
\* a socket on which connect succeeded and which the client has not
\* closed.
ConnectedMeansOpenSocket ==
    ((\A t \in Tasks : pc[t] \in {"idle", "done"}) /\ connected)
    => /\ socket # 0
       /\ socks[socket].st = "open"

\* C36: send_request never raises and keeps no connection between calls.
\* A call that has ended has returned a value, None on every failure, and
\* the socket it opened is closed.
SendRequestNeverRaises ==
    \A t \in Tasks :
        Finished(t, "send_request")
        => /\ outcome[t].kind = "returned"
           /\ (log[t].fault # "" => outcome[t].val = JNull)
           /\ log[t].connects <= 1
           /\ LiveSockets = {}
           /\ (ret[t].sock # 0 => socks[ret[t].sock].st = "closed")

=============================================================================
